---- MODULE Spec2Model ----
(***************************************************************************)
(* Model of Web3ResearchAgent (src/agents/research_agent.py): the tool     *)
(* registry, the cached AgentExecutor, one research(query) call driven     *)
(* through the executor's think / act / observe loop as configured in      *)
(* _rebuild_agent, and the post-processing of the executor's result into   *)
(* the dictionary research returns.                                        *)
(*                                                                         *)
(* Text is modelled as a sequence of tokens (each token a non-empty piece  *)
(* of text), so the empty string is <<>>, concatenation is \o, and the     *)
(* substring tests of the code are tests on tokens.                        *)
(***************************************************************************)
EXTENDS Integers, Sequences, FiniteSets, TLC

\* ------------------------------------------------------------------ bounds
MaxTools == 2          \* add_tool calls modelled per behaviour
MaxOut == 2            \* tokens in the executor's "output" text
MaxTraceLen == 3       \* steps of a trace handed to _extract_sources alone
MaxArgLen == 3         \* characters of an argument string handed to a tool

\* ------------------------------------------------- configuration constants
max_iterations == 4    \* AgentExecutor(max_iterations=4)

\* -------------------------------------------------------------------- text
FinalAnswerLabel == "Final Answer:"
Space == " "
OutTokens == {FinalAnswerLabel, Space, "12 Gwei"}

\* str.lower() on one token
Lower(tok) ==
  CASE tok = "DeFiLlama" -> "defillama"
    [] tok = "Etherscan" -> "etherscan"
    [] tok = "CoinMarketCap" -> "coinmarketcap"
    [] tok = "Artemis" -> "artemis"
    [] tok = "Dune" -> "dune"
    [] tok = "DUNE" -> "dune"
    [] tok = "Nansen" -> "nansen"
    [] tok = "Not Found" -> "not found"
    [] tok = "NOT FOUND" -> "not found"
    [] OTHER -> tok

\* `needle in text.lower()` for a needle that is one token
ContainsLower(text, needle) == \E i \in 1..Len(text) : Lower(text[i]) = needle

\* `needle in text` (case-sensitive)
Contains(text, needle) == \E i \in 1..Len(text) : text[i] = needle

\* text.split(sep)[-1]: the text after the last occurrence of sep
\* (the whole text when sep does not occur)
SplitFirstTail(text, sep) ==
  IF Contains(text, sep)
  THEN LET k == CHOOSE i \in 1..Len(text) :
                  /\ text[i] = sep
                  /\ \A j \in 1..(i-1) : text[j] # sep
       IN SubSeq(text, k + 1, Len(text))
  ELSE text

SplitLast(text, sep) ==
  IF Contains(text, sep)
  THEN LET k == CHOOSE i \in 1..Len(text) :
                  /\ text[i] = sep
                  /\ \A j \in (i+1)..Len(text) : text[j] # sep
       IN SubSeq(text, k + 1, Len(text))
  ELSE text

\* str.strip(): drop leading and trailing whitespace
RECURSIVE LStrip(_)
LStrip(text) ==
  IF text # <<>> /\ Head(text) = Space THEN LStrip(Tail(text)) ELSE text

RECURSIVE RStrip(_)
RStrip(text) ==
  IF text # <<>> /\ text[Len(text)] = Space
  THEN RStrip(SubSeq(text, 1, Len(text) - 1))
  ELSE text

Strip(text) == RStrip(LStrip(text))

\* ", ".join(names)
RECURSIVE Join(_)
Join(names) ==
  IF names = <<>> THEN <<>>
  ELSE IF Len(names) = 1 THEN names[1]
  ELSE names[1] \o <<", ">> \o Join(Tail(names))

\* all sequences over S of length 0..n
SeqsUpTo(S, n) == UNION {[1..k -> S] : k \in 0..n}

\* ---------------------------------------------------------------- tool ids
\* A tool id is text; the pieces that matter to _extract_sources are tokens.
GasTool == <<"get_gas_prices">>
DuneTool == <<"run_", "Dune", "_custom_query">>
EtherDuneTool == <<"etherscan", "_vs_", "dune">>
UnknownTool == <<"lookup_", "nansen">>
ExceptionToolName == <<"_Exception">>

\* ids the tools handed to add_tool may carry
RegIds == {GasTool, DuneTool}
\* ids the language model may name in an Action line
RequestIds == RegIds \cup {UnknownTool}

\* ids used when _extract_sources is exercised on its own
ExtractIds == RequestIds \cup
  { EtherDuneTool, <<"get_", "defillama", "_tvl">>, <<"coinmarketcap", "_quotes">>,
    <<"get_", "artemis", "_metrics">>, <<"DUNE", "_and_", "Nansen">>,
    ExceptionToolName }

\* texts a tool function returns
ToolTexts == { <<"12 Gwei">>, <<"Error fetching gas data: ", "timeout">> }
ParseErrorText == <<"Invalid or incomplete response">>
ForcedStopText == <<"Agent stopped due to iteration limit or time limit.">>

\* messages of exceptions raised by the model client or by a tool
ErrMsgs == { <<"404 model ", "Not Found">>, <<"429 rate limit exceeded">> }

Queries == {"q1", "q2"}

VARIABLES
  tools,           \* self.tools: list of registered tool ids
  agent_executor,  \* self.agent_executor: [built, tools]
  pc,              \* position of the research call
  query,           \* the query of the current call
  trace,           \* the executor's intermediate_steps
  iterations,      \* the executor's iteration counter
  timeUp,          \* time_elapsed >= max_execution_time
  pending,         \* the tool id of the AgentAction being performed
  status,          \* Running / Completed / Exhausted / Failed
  failure,         \* why a run failed
  output,          \* what executor.invoke returned as result["output"]
  results,         \* the dictionaries research has returned for this call
  escaped,         \* an exception left research
  llmCalls,        \* model round-trips of this call
  toolCalls,       \* invocations of registered tools' functions in this call
  regAtStart,      \* self.tools when the call began
  hashSeed,        \* the process's string-hash ordering
  excMsg,          \* str(e) of the exception raised inside this call
  clockPast,       \* time.time() - start_time >= max_execution_time, now
  toolArg,         \* a tool function taken on its own: its argument string
  toolEnv,         \* ... whether its API key is set, what upstream answers
  toolOut,         \* ... what the call gave: text returned or exception
  runs,            \* research calls running side by side: each call's locals
  adding,          \* add_tool has appended and not yet rebuilt
  dunePc,          \* DuneAnalyticsMCP.execute_query: its position
  duneKey,         \* ... self.api_key is set
  duneElapsed,     \* ... time.time() - start_time, in seconds
  dunePolls,       \* ... GET requests of the polling loop so far
  duneSeen,        \* ... the state the latest poll reported, if any
  duneResult,      \* ... the dictionary returned
  messages,        \* st.session_state.messages
  uiAgent          \* st.session_state.agent is set

vars == <<tools, agent_executor, pc, query, trace, iterations, timeUp, pending,
          status, failure, output, results, escaped, llmCalls, toolCalls,
          regAtStart, hashSeed, excMsg, clockPast, toolArg, toolEnv, toolOut,
          runs, adding, dunePc, duneKey, duneElapsed, dunePolls, duneSeen,
          duneResult, messages, uiAgent>>

toolVars == <<toolArg, toolEnv, toolOut>>

concVars == <<runs, adding>>

duneVars == <<dunePc, duneKey, duneElapsed, dunePolls, duneSeen, duneResult>>

uiVars == <<messages, uiAgent>>

\* the locals of one research call in every position but the registry and
\* the executor
callVars == <<pc, query, trace, iterations, timeUp, pending, status, failure,
              output, results, escaped, llmCalls, toolCalls, regAtStart,
              hashSeed, excMsg, clockPast>>

NoOutput == [present |-> FALSE, text |-> <<>>]
NoPending == <<>>
NoToolEnv == [key |-> FALSE, upstream |-> "none"]
NoToolOut == [raised |-> FALSE, text |-> <<>>]

\* the wall clock during a blocking call: the deadline may pass, never un-pass
ClockMayPass == clockPast' \in BOOLEAN /\ (clockPast => clockPast')

\* ------------------------------------------------- registry and executor
NoExecutor == [built |-> FALSE, tools |-> <<>>]

\* _rebuild_agent: returns early on an empty registry, else builds the
\* executor over the current tools
RebuildOnce(ts, old) ==
  IF ts = <<>> \/ old.built THEN old ELSE [built |-> TRUE, tools |-> ts]

RebuildAgent(ts, old) ==
  IF ts = <<>> THEN old ELSE [built |-> TRUE, tools |-> ts]

\* `if not self.agent_executor` at the top of research
ExecutorMissingNever(ae) == FALSE

ExecutorMissing(ae) == ~ae.built

\* [tool.name for tool in self.tools]
ToolNameList(ts) == ts

\* the executor's name_to_tool_map keys
NameSet(ts) == {ts[i] : i \in 1..Len(ts)}

\* the observation for a tool id that is not in the executor's map: the
\* requested id and the ids that are
InvalidToolNoList(requested, ts) == requested \o <<" is not a valid tool">>

InvalidToolText(requested, ts) ==
  requested \o <<" is not a valid tool, try one of [">> \o Join(ts) \o <<"].">>

\* the executor's loop condition under max_iterations and max_execution_time
ShouldContinueOffByOne(its, up) == its <= max_iterations /\ ~up

ShouldContinue(its, up) == its < max_iterations /\ ~up

\* ------------------------------------------------------ _extract_sources
\* the if / elif chain over tool_name.lower()
NormalizeLastWins(tool_name) ==
  IF ContainsLower(tool_name, "nansen") THEN <<"Nansen">>
  ELSE IF ContainsLower(tool_name, "dune") THEN <<"Dune Analytics">>
  ELSE IF ContainsLower(tool_name, "artemis") THEN <<"Artemis">>
  ELSE IF ContainsLower(tool_name, "coinmarketcap") THEN <<"CoinMarketCap">>
  ELSE IF ContainsLower(tool_name, "etherscan") THEN <<"Etherscan">>
  ELSE IF ContainsLower(tool_name, "defillama") THEN <<"DeFiLlama">>
  ELSE tool_name

NormalizeCaseSensitive(tool_name) ==
  IF Contains(tool_name, "defillama") THEN <<"DeFiLlama">>
  ELSE IF Contains(tool_name, "etherscan") THEN <<"Etherscan">>
  ELSE IF Contains(tool_name, "coinmarketcap") THEN <<"CoinMarketCap">>
  ELSE IF Contains(tool_name, "artemis") THEN <<"Artemis">>
  ELSE IF Contains(tool_name, "dune") THEN <<"Dune Analytics">>
  ELSE IF Contains(tool_name, "nansen") THEN <<"Nansen">>
  ELSE tool_name

Normalize(tool_name) ==
  IF ContainsLower(tool_name, "defillama") THEN <<"DeFiLlama">>
  ELSE IF ContainsLower(tool_name, "etherscan") THEN <<"Etherscan">>
  ELSE IF ContainsLower(tool_name, "coinmarketcap") THEN <<"CoinMarketCap">>
  ELSE IF ContainsLower(tool_name, "artemis") THEN <<"Artemis">>
  ELSE IF ContainsLower(tool_name, "dune") THEN <<"Dune Analytics">>
  ELSE IF ContainsLower(tool_name, "nansen") THEN <<"Nansen">>
  ELSE tool_name

\* the loop `for step in intermediate_steps: sources.add(...)`
RECURSIVE SourceSet(_)
SourceSet(steps) ==
  IF steps = <<>> THEN {}
  ELSE SourceSet(SubSeq(steps, 1, Len(steps) - 1))
         \cup {Normalize(steps[Len(steps)].tool)}

\* list(sources): the elements of the set, each once, in the order the
\* process's string hashing gives
RECURSIVE SetOrder(_)
SetOrder(S) ==
  IF S = {} THEN <<>>
  ELSE LET x == CHOOSE y \in S : TRUE IN <<x>> \o SetOrder(S \ {x})

Reverse(s) == [i \in 1..Len(s) |-> s[Len(s) + 1 - i]]

ListOfSet(S, seed) == IF seed = 0 THEN SetOrder(S) ELSE Reverse(SetOrder(S))

\* a list that keeps one entry per step instead of a set
RECURSIVE SourcesPerStep(_, _)
SourcesPerStep(steps, seed) ==
  IF steps = <<>> THEN <<>>
  ELSE <<Normalize(steps[1].tool)>> \o SourcesPerStep(Tail(steps), seed)

ExtractSources(steps, seed) == ListOfSet(SourceSet(steps), seed)

\* ------------------------------------------------- research: its results
\* the early return when self.agent_executor is None
NoToolsResult ==
  [answer |-> <<"No data sources connected", ". Please add API tools first.">>,
   sources |-> <<>>, steps |-> <<>>, success |-> FALSE,
   has_error |-> FALSE, error |-> <<>>,
   has_available_tools |-> FALSE, available_tools |-> <<>>]

\* answer = result.get("output", "No response generated"), then the
\* "Final Answer:" clean-up
CleanAnswerTrimsAlways(out) ==
  LET answer == IF out.present THEN out.text ELSE <<"No response generated">>
  IN IF Contains(answer, FinalAnswerLabel)
     THEN Strip(SplitLast(answer, FinalAnswerLabel))
     ELSE Strip(answer)

CleanAnswer(out) ==
  LET answer == IF out.present THEN out.text ELSE <<"No response generated">>
  IN IF Contains(answer, FinalAnswerLabel)
     THEN Strip(SplitLast(answer, FinalAnswerLabel))
     ELSE answer

\* what is left of the intermediate_steps list after it was read (iterated
\* by _extract_sources, returned as "steps"): a list, not consumed
StepsConsumed(steps) == <<>>

StepsAfterRead(steps) == steps

\* result.get("intermediate_steps", [])
StepsDropped(steps) == <<>>

StepsOf(steps) == steps

\* the dictionary returned after executor.invoke returned
ResearchSuccess(out, steps, ts, seed) ==
  [answer |-> CleanAnswer(out),
   sources |-> ExtractSources(steps, seed),
   steps |-> StepsOf(steps), success |-> TRUE,
   has_error |-> FALSE, error |-> <<>>,
   has_available_tools |-> TRUE, available_tools |-> ToolNameList(ts)]

\* `except Exception as e`: every exception the model client or a tool
\* raises is an Exception
CatchesNotFoundOnly(msg) == ContainsLower(msg, "not found")

Catches(msg) == TRUE

\* the two dictionaries of the except branch
ResearchExceptGenericError(msg, ts) ==
  [answer |-> <<"Research failed: ">> \o msg,
   sources |-> <<>>, steps |-> <<>>, success |-> FALSE,
   has_error |-> TRUE, error |-> <<"Research failed">>,
   has_available_tools |-> FALSE, available_tools |-> <<>>]

ResearchExceptCaseSensitive(msg, ts) ==
  [answer |-> IF Contains(msg, "not found")
              THEN <<"Tool execution failed. Available tools: ">>
                     \o Join(ToolNameList(ts))
              ELSE <<"Research failed: ">> \o msg,
   sources |-> <<>>, steps |-> <<>>, success |-> FALSE,
   has_error |-> TRUE, error |-> msg,
   has_available_tools |-> FALSE, available_tools |-> <<>>]

ResearchExcept(msg, ts) ==
  [answer |-> IF ContainsLower(msg, "not found")
              THEN <<"Tool execution failed. Available tools: ">>
                     \o Join(ToolNameList(ts))
              ELSE <<"Research failed: ">> \o msg,
   sources |-> <<>>, steps |-> <<>>, success |-> FALSE,
   has_error |-> TRUE, error |-> msg,
   has_available_tools |-> FALSE, available_tools |-> <<>>]

\* ------------------------------------------------------------------ state
\* the parts of the program a specification does not exercise, at rest
RunIds == {1, 2}

NoRun == [pc |-> "idle", startTools |-> <<>>, startExecutor |-> NoExecutor,
          available_tools |-> <<>>, executor |-> NoExecutor, trace |-> <<>>,
          result |-> <<>>]

ConcIdle ==
  /\ runs = [r \in RunIds |-> NoRun]
  /\ adding = FALSE

NoDuneResult == [returned |-> FALSE, has_error |-> FALSE, text |-> <<>>]

DuneIdle ==
  /\ dunePc = "idle"
  /\ duneKey = FALSE
  /\ duneElapsed = 0
  /\ dunePolls = 0
  /\ duneSeen = <<>>
  /\ duneResult = NoDuneResult

UiIdle ==
  /\ messages = <<>>
  /\ uiAgent = FALSE

CallIdle ==
  /\ pc = "idle"
  /\ query = "none"
  /\ trace = <<>>
  /\ iterations = 0
  /\ timeUp = FALSE
  /\ pending = NoPending
  /\ status = "None"
  /\ failure = "None"
  /\ output = NoOutput
  /\ results = <<>>
  /\ escaped = FALSE
  /\ llmCalls = 0
  /\ toolCalls = 0
  /\ regAtStart = <<>>
  /\ hashSeed = 0
  /\ excMsg = <<>>
  /\ clockPast = FALSE

ToolIdle ==
  /\ toolArg = <<>>
  /\ toolEnv = NoToolEnv
  /\ toolOut = NoToolOut

Init ==
  /\ tools = <<>>
  /\ agent_executor = NoExecutor
  /\ pc = "idle"
  /\ query = "none"
  /\ trace = <<>>
  /\ iterations = 0
  /\ timeUp = FALSE
  /\ pending = NoPending
  /\ status = "None"
  /\ failure = "None"
  /\ output = NoOutput
  /\ results = <<>>
  /\ escaped = FALSE
  /\ llmCalls = 0
  /\ toolCalls = 0
  /\ regAtStart = <<>>
  /\ hashSeed \in {0, 1}
  /\ excMsg = <<>>
  /\ clockPast = FALSE
  /\ toolArg = <<>>
  /\ toolEnv = NoToolEnv
  /\ toolOut = NoToolOut
  /\ ConcIdle
  /\ DuneIdle
  /\ UiIdle

\* no research call is in flight
Quiescent == pc \in {"idle", "returned"}

\* add_tool: append, then _rebuild_agent
AddTool(t) ==
  /\ Quiescent
  /\ Len(tools) < MaxTools
  /\ tools' = Append(tools, t)
  /\ agent_executor' = RebuildAgent(Append(tools, t), agent_executor)
  /\ UNCHANGED <<pc, query, trace, iterations, timeUp, pending, status,
                 failure, output, results, escaped, llmCalls, toolCalls,
                 regAtStart, hashSeed>>
  /\ UNCHANGED <<excMsg, clockPast>>
  /\ UNCHANGED toolVars
  /\ UNCHANGED <<concVars, duneVars, uiVars>>

\* research, first branch: no executor, return at once
ResearchNoTools(q) ==
  /\ Quiescent
  /\ ExecutorMissing(agent_executor)
  /\ query' = q
  /\ regAtStart' = tools
  /\ trace' = <<>>
  /\ iterations' = 0
  /\ timeUp' = FALSE
  /\ pending' = NoPending
  /\ llmCalls' = 0
  /\ toolCalls' = 0
  /\ output' = NoOutput
  /\ status' = "Failed"
  /\ failure' = "NoToolsConfigured"
  /\ results' = <<NoToolsResult>>
  /\ escaped' = FALSE
  /\ pc' = "returned"
  /\ UNCHANGED <<tools, agent_executor, hashSeed>>
  /\ excMsg' = <<>>
  /\ clockPast' = FALSE
  /\ UNCHANGED toolVars
  /\ UNCHANGED <<concVars, duneVars, uiVars>>

\* research enters executor.invoke: iterations = 0, no steps, clock started
ResearchStart(q) ==
  /\ Quiescent
  /\ ~ExecutorMissing(agent_executor)
  /\ query' = q
  /\ regAtStart' = tools
  /\ trace' = <<>>
  /\ iterations' = 0
  /\ timeUp' = FALSE
  /\ pending' = NoPending
  /\ llmCalls' = 0
  /\ toolCalls' = 0
  /\ output' = NoOutput
  /\ status' = "Running"
  /\ failure' = "None"
  /\ results' = <<>>
  /\ escaped' = FALSE
  /\ pc' = "think"
  /\ UNCHANGED <<tools, agent_executor, hashSeed>>
  /\ excMsg' = <<>>
  /\ clockPast' = FALSE
  /\ UNCHANGED toolVars
  /\ UNCHANGED <<concVars, duneVars, uiVars>>

\* research leaves through the except branch, or the exception leaves research
Raised(msg) ==
  /\ results' = IF Catches(msg) THEN <<ResearchExcept(msg, tools)>> ELSE <<>>
  /\ escaped' = ~Catches(msg)
  /\ status' = "Failed"
  /\ output' = NoOutput
  /\ pending' = NoPending
  /\ pc' = "returned"
  /\ excMsg' = msg

\* one step was appended: the executor counts the iteration and reads the clock
StepDoneRewrites(step) ==
  /\ trace' = <<step>>
  /\ iterations' = iterations + 1
  /\ timeUp' = clockPast'
  /\ pending' = NoPending
  /\ pc' = "think"

StepDone(step) ==
  /\ trace' = Append(trace, step)
  /\ iterations' = iterations + 1
  /\ timeUp' = clockPast'
  /\ pending' = NoPending
  /\ pc' = "think"

\* the model answers with a Final Answer: the executor returns, research
\* builds its dictionary
ModelFinish(out) ==
  /\ pc = "think"
  /\ ShouldContinue(iterations, timeUp)
  /\ llmCalls' = llmCalls + 1
  /\ output' = out
  /\ status' = "Completed"
  /\ results' = <<ResearchSuccess(out, trace, tools, hashSeed)>>
  /\ pc' = "returned"
  /\ UNCHANGED <<tools, agent_executor, query, trace, iterations, timeUp,
                 pending, failure, escaped, toolCalls, regAtStart, hashSeed>>
  /\ ClockMayPass
  /\ UNCHANGED excMsg
  /\ UNCHANGED toolVars
  /\ UNCHANGED <<concVars, duneVars, uiVars>>

\* the call to the model raises (network, auth, rate limit, timeout)
ModelRaises(msg) ==
  /\ pc = "think"
  /\ ShouldContinue(iterations, timeUp)
  /\ llmCalls' = llmCalls + 1
  /\ failure' = "ModelCallFailure"
  /\ Raised(msg)
  /\ UNCHANGED <<tools, agent_executor, query, trace, iterations, timeUp,
                 toolCalls, regAtStart, hashSeed>>
  /\ ClockMayPass
  /\ UNCHANGED toolVars
  /\ UNCHANGED <<concVars, duneVars, uiVars>>

\* the model answers with an Action naming tool id t
ModelRequestsTool(t) ==
  /\ pc = "think"
  /\ ShouldContinue(iterations, timeUp)
  /\ llmCalls' = llmCalls + 1
  /\ pending' = t
  /\ pc' = "act"
  /\ UNCHANGED <<tools, agent_executor, query, trace, iterations, timeUp,
                 status, failure, output, results, escaped, toolCalls,
                 regAtStart, hashSeed>>
  /\ ClockMayPass
  /\ UNCHANGED excMsg
  /\ UNCHANGED toolVars
  /\ UNCHANGED <<concVars, duneVars, uiVars>>

\* the model's text cannot be parsed: handle_parsing_errors=True records an
\* "_Exception" step and the loop goes on
ModelMalformedRaises ==
  /\ pc = "think"
  /\ ShouldContinue(iterations, timeUp)
  /\ llmCalls' = llmCalls + 1
  /\ failure' = "MalformedDecision"
  /\ Raised(ParseErrorText)
  /\ UNCHANGED <<tools, agent_executor, query, trace, iterations, timeUp,
                 toolCalls, regAtStart, hashSeed>>
  /\ ClockMayPass
  /\ UNCHANGED toolVars
  /\ UNCHANGED <<concVars, duneVars, uiVars>>

ModelMalformed ==
  /\ pc = "think"
  /\ ShouldContinue(iterations, timeUp)
  /\ llmCalls' = llmCalls + 1
  /\ ClockMayPass
  /\ StepDone([tool |-> ExceptionToolName, obs |-> ParseErrorText])
  /\ UNCHANGED <<tools, agent_executor, query, status, failure, output,
                 results, escaped, toolCalls, regAtStart, hashSeed>>
  /\ UNCHANGED excMsg
  /\ UNCHANGED toolVars
  /\ UNCHANGED <<concVars, duneVars, uiVars>>

\* the observation recorded for the text a tool's function returned: the
\* executor stores the returned str as it is, whatever it says
ObservationErrorsMasked(text) ==
  IF text # <<>> /\ text[1] = "Error fetching gas data: "
  THEN <<"Tool failed">>
  ELSE text

Observation(text) == text

\* the named tool is in the executor's map: its function returns text
ToolReturnsTwice(text) ==
  /\ pc = "act"
  /\ pending \in NameSet(agent_executor.tools)
  /\ toolCalls' = toolCalls + 2
  /\ ClockMayPass
  /\ StepDone([tool |-> pending, obs |-> Observation(text)])
  /\ UNCHANGED <<tools, agent_executor, query, status, failure, output,
                 results, escaped, llmCalls, regAtStart, hashSeed>>
  /\ UNCHANGED excMsg
  /\ UNCHANGED toolVars
  /\ UNCHANGED <<concVars, duneVars, uiVars>>

ToolReturns(text) ==
  /\ pc = "act"
  /\ pending \in NameSet(agent_executor.tools)
  /\ toolCalls' = toolCalls + 1
  /\ ClockMayPass
  /\ StepDone([tool |-> pending, obs |-> Observation(text)])
  /\ UNCHANGED <<tools, agent_executor, query, status, failure, output,
                 results, escaped, llmCalls, regAtStart, hashSeed>>
  /\ UNCHANGED excMsg
  /\ UNCHANGED toolVars
  /\ UNCHANGED <<concVars, duneVars, uiVars>>

\* the named tool is not in the executor's map: a corrective observation
ToolInvalid ==
  /\ pc = "act"
  /\ pending \notin NameSet(agent_executor.tools)
  /\ clockPast' = clockPast
  /\ StepDone([tool |-> pending,
               obs |-> InvalidToolText(pending, agent_executor.tools)])
  /\ UNCHANGED <<tools, agent_executor, query, status, failure, output,
                 results, escaped, llmCalls, toolCalls, regAtStart, hashSeed>>
  /\ UNCHANGED excMsg
  /\ UNCHANGED toolVars
  /\ UNCHANGED <<concVars, duneVars, uiVars>>

\* the tool's function raises: nothing in the executor catches it
ToolRaises(msg) ==
  /\ pc = "act"
  /\ pending \in NameSet(agent_executor.tools)
  /\ toolCalls' = toolCalls + 1
  /\ failure' = "ToolRaised"
  /\ Raised(msg)
  /\ UNCHANGED <<tools, agent_executor, query, trace, iterations, timeUp,
                 llmCalls, regAtStart, hashSeed>>
  /\ ClockMayPass
  /\ UNCHANGED toolVars
  /\ UNCHANGED <<concVars, duneVars, uiVars>>

\* the budget is used up: early_stopping_method="force" returns the canned
\* text, research builds its dictionary
BudgetStop ==
  /\ pc = "think"
  /\ ~ShouldContinue(iterations, timeUp)
  /\ output' = [present |-> TRUE, text |-> ForcedStopText]
  /\ status' = "Exhausted"
  /\ results' = <<ResearchSuccess([present |-> TRUE, text |-> ForcedStopText],
                                  trace, tools, hashSeed)>>
  /\ pc' = "returned"
  /\ UNCHANGED <<tools, agent_executor, query, trace, iterations, timeUp,
                 pending, failure, escaped, llmCalls, toolCalls, regAtStart,
                 hashSeed>>
  /\ UNCHANGED <<excMsg, clockPast>>
  /\ UNCHANGED toolVars
  /\ UNCHANGED <<concVars, duneVars, uiVars>>

Outputs ==
  {NoOutput} \cup {[present |-> TRUE, text |-> t] : t \in SeqsUpTo(OutTokens, MaxOut)}

Next ==
  \/ \E t \in RegIds : AddTool(t)
  \/ \E q \in Queries : ResearchNoTools(q)
  \/ \E q \in Queries : ResearchStart(q)
  \/ \E out \in Outputs : ModelFinish(out)
  \/ \E msg \in ErrMsgs : ModelRaises(msg)
  \/ \E t \in NameSet(agent_executor.tools) \cup {UnknownTool} : ModelRequestsTool(t)
  \/ ModelMalformed
  \/ \E text \in ToolTexts : ToolReturns(text)
  \/ ToolInvalid
  \/ \E msg \in ErrMsgs : ToolRaises(msg)
  \/ BudgetStop

Spec == Init /\ [][Next]_vars

\* --------------------------------------- _extract_sources taken on its own
\* any result dictionary whose intermediate_steps name up to MaxTraceLen ids
ExtractSteps ==
  {[i \in 1..Len(ids) |-> [tool |-> ids[i], obs |-> <<"12 Gwei">>]] :
     ids \in SeqsUpTo(ExtractIds, MaxTraceLen)}

InitExtract ==
  /\ tools = <<GasTool>>
  /\ agent_executor = RebuildAgent(<<GasTool>>, NoExecutor)
  /\ pc = "extract"
  /\ query = "q1"
  /\ trace \in ExtractSteps
  /\ iterations = Len(trace)
  /\ timeUp = FALSE
  /\ pending = NoPending
  /\ status = "Completed"
  /\ failure = "None"
  /\ output = [present |-> TRUE, text |-> <<"12 Gwei">>]
  /\ results = <<>>
  /\ escaped = FALSE
  /\ llmCalls = Len(trace) + 1
  /\ toolCalls = 0
  /\ regAtStart = <<GasTool>>
  /\ hashSeed \in {0, 1}
  /\ excMsg = <<>>
  /\ clockPast = FALSE
  /\ toolArg = <<>>
  /\ toolEnv = NoToolEnv
  /\ toolOut = NoToolOut
  /\ ConcIdle
  /\ DuneIdle
  /\ UiIdle

\* research's return statement evaluated on that dictionary
ExtractCall ==
  /\ pc = "extract"
  /\ results' = <<ResearchSuccess(output, trace, tools, hashSeed)>>
  /\ trace' = StepsAfterRead(trace)
  /\ pc' = "extracted"
  /\ UNCHANGED <<tools, agent_executor, query, iterations, timeUp,
                 pending, status, failure, output, escaped, llmCalls,
                 toolCalls, regAtStart, hashSeed>>
  /\ UNCHANGED <<excMsg, clockPast>>
  /\ UNCHANGED toolVars
  /\ UNCHANGED <<concVars, duneVars, uiVars>>

\* the same evaluation once more on the same dictionary
ExtractAgain ==
  /\ pc = "extracted"
  /\ results' = Append(results, ResearchSuccess(output, trace, tools, hashSeed))
  /\ trace' = StepsAfterRead(trace)
  /\ pc' = "extracted2"
  /\ UNCHANGED <<tools, agent_executor, query, iterations, timeUp,
                 pending, status, failure, output, escaped, llmCalls,
                 toolCalls, regAtStart, hashSeed>>
  /\ UNCHANGED <<excMsg, clockPast>>
  /\ UNCHANGED toolVars
  /\ UNCHANGED <<concVars, duneVars, uiVars>>

NextExtract ==
  \/ ExtractCall
  \/ ExtractAgain

SpecExtract == InitExtract /\ [][NextExtract]_vars

\* ------------------------------------------ tool functions taken on their own
\* The func of three registered tools, called with one argument string.  An
\* argument is a sequence of characters: a digit, a dot, a letter.
ArgChars == {"7", ".", "x"}

YieldTool == <<"find_yield_opportunities">>
ProtocolsTool == <<"get_defi_protocols">>
WalletTool == <<"analyze_ethereum_wallet">>
FnTools == {YieldTool, ProtocolsTool, WalletTool}

\* what the HTTP request of the tool meets
Upstreams == {"ok", "request_error", "null_change"}

\* str.isdigit(): non-empty and every character a digit
IsDigit(arg) == arg # <<>> /\ \A i \in 1..Len(arg) : arg[i] = "7"

\* str.replace(".", "")
RECURSIVE RemoveDots(_)
RemoveDots(arg) ==
  IF arg = <<>> THEN <<>>
  ELSE IF Head(arg) = "." THEN RemoveDots(Tail(arg))
  ELSE <<Head(arg)>> \o RemoveDots(Tail(arg))

\* float(arg) succeeds: digits with at most one dot, at least one digit
FloatParses(arg) ==
  /\ \A i \in 1..Len(arg) : arg[i] \in {"7", "."}
  /\ Cardinality({i \in 1..Len(arg) : arg[i] = "."}) <= 1
  /\ \E i \in 1..Len(arg) : arg[i] = "7"

TextOut(text) == [raised |-> FALSE, text |-> text]
RaiseOut(text) == [raised |-> TRUE, text |-> text]

\* DeFiLlamaMCP.get_yield_opportunities_enhanced
YieldBody(env) ==
  IF env.upstream = "request_error"
  THEN TextOut(<<"Error: ", "API request failed">>)
  ELSE TextOut(<<"Enhanced Yield Opportunities">>)

\* lambda query: get_yield_opportunities_enhanced(
\*     min_apy=float(query) if query.replace(".", "").isdigit() else 5.0)
YieldFn(arg, env) ==
  IF IsDigit(RemoveDots(arg)) /\ ~FloatParses(arg)
  THEN RaiseOut(<<"could not convert string to float">>)
  ELSE YieldBody(env)

\* DeFiLlamaMCP.get_protocols_enhanced: a protocol whose change_1d is null
\* reaches `change_1d * 0.5`
ProtocolsBody(env) ==
  IF env.upstream = "request_error"
  THEN TextOut(<<"Error fetching protocols: ", "API request failed">>)
  ELSE IF env.upstream = "null_change"
  THEN RaiseOut(<<"unsupported operand type(s) for *: 'NoneType' and 'float'">>)
  ELSE TextOut(<<"Enhanced Protocol Rankings">>)

\* lambda query: get_protocols_enhanced(limit=int(query) if query.isdigit() else 20)
ProtocolsFn(arg, env) == ProtocolsBody(env)

\* EtherscanMCP.analyze_wallet over EtherscanMCP._make_request
WalletFn(arg, env) ==
  IF ~env.key
  THEN TextOut(<<"Error analyzing wallet: ", "Etherscan API key not configured">>)
  ELSE IF env.upstream = "request_error"
  THEN TextOut(<<"Error analyzing wallet: ", "API request failed">>)
  ELSE TextOut(<<"Wallet Analysis">>)

ToolFn(t, arg, env) ==
  IF t = YieldTool THEN YieldFn(arg, env)
  ELSE IF t = ProtocolsTool THEN ProtocolsFn(arg, env)
  ELSE WalletFn(arg, env)

InitTool ==
  /\ tools = <<YieldTool, ProtocolsTool, WalletTool>>
  /\ agent_executor = RebuildAgent(tools, NoExecutor)
  /\ pc = "tool_call"
  /\ query = "q1"
  /\ trace = <<>>
  /\ iterations = 0
  /\ timeUp = FALSE
  /\ pending \in FnTools
  /\ status = "Running"
  /\ failure = "None"
  /\ output = NoOutput
  /\ results = <<>>
  /\ escaped = FALSE
  /\ llmCalls = 1
  /\ toolCalls = 0
  /\ regAtStart = tools
  /\ hashSeed = 0
  /\ excMsg = <<>>
  /\ clockPast = FALSE
  /\ toolArg \in SeqsUpTo(ArgChars, MaxArgLen)
  /\ toolEnv \in [key : BOOLEAN, upstream : Upstreams]
  /\ toolOut = NoToolOut
  /\ ConcIdle
  /\ DuneIdle
  /\ UiIdle

\* tool.func(argument): returns text, or the exception leaves the function
InvokeTool ==
  /\ pc = "tool_call"
  /\ toolOut' = ToolFn(pending, toolArg, toolEnv)
  /\ toolCalls' = toolCalls + 1
  /\ pc' = "tool_done"
  /\ UNCHANGED <<tools, agent_executor, query, trace, iterations, timeUp,
                 pending, status, failure, output, results, escaped, llmCalls,
                 regAtStart, hashSeed, excMsg, clockPast, toolArg, toolEnv>>
  /\ UNCHANGED <<concVars, duneVars, uiVars>>

NextTool == InvokeTool

SpecTool == InitTool /\ [][NextTool]_vars

\* --------------------------------- research calls running side by side
\* initialize_agent is a cached resource: every session's script thread calls
\* research on the same Web3ResearchAgent.  A call's locals are its own; what
\* the calls share is self.tools and self.agent_executor, read at lines 85,
\* 95, 98 and 123 and written by add_tool at lines 33 and 34.  The steps of
\* the loop touch only the call's locals, so one action stands for a whole
\* think/act/observe round.
MaxConcSteps == 1

ConcOutput == [present |-> TRUE, text |-> <<FinalAnswerLabel, "12 Gwei">>]

\* the run's intermediate_steps is a local of that invoke call
AppendShared(rs, r, step) ==
  [x \in RunIds |->
     IF rs[x].pc = "loop" THEN [rs[x] EXCEPT !.trace = Append(@, step)]
     ELSE rs[x]]

AppendOwn(rs, r, step) == [rs EXCEPT ![r].trace = Append(@, step)]

InitConc ==
  /\ tools = <<GasTool>>
  /\ agent_executor = RebuildAgent(<<GasTool>>, NoExecutor)
  /\ CallIdle
  /\ ToolIdle
  /\ ConcIdle
  /\ DuneIdle
  /\ UiIdle

\* line 85: `if not self.agent_executor`
ConcCheck(r) ==
  /\ runs[r].pc = "idle"
  /\ runs' = IF ExecutorMissing(agent_executor)
             THEN [runs EXCEPT ![r].pc = "returned",
                               ![r].startTools = tools,
                               ![r].startExecutor = agent_executor,
                               ![r].result = <<NoToolsResult>>]
             ELSE [runs EXCEPT ![r].pc = "checked",
                               ![r].startTools = tools,
                               ![r].startExecutor = agent_executor]
  /\ UNCHANGED <<tools, agent_executor, adding>>
  /\ UNCHANGED <<callVars, toolVars, duneVars, uiVars>>

\* line 95: available_tools = [tool.name for tool in self.tools]
ConcNames(r) ==
  /\ runs[r].pc = "checked"
  /\ runs' = [runs EXCEPT ![r].pc = "named", ![r].available_tools = tools]
  /\ UNCHANGED <<tools, agent_executor, adding>>
  /\ UNCHANGED <<callVars, toolVars, duneVars, uiVars>>

\* line 98: self.agent_executor.invoke(...) on the executor object the
\* attribute holds now; its name_to_tool_map is built from that object's tools
ConcInvoke(r) ==
  /\ runs[r].pc = "named"
  /\ runs' = [runs EXCEPT ![r].pc = "loop", ![r].executor = agent_executor]
  /\ UNCHANGED <<tools, agent_executor, adding>>
  /\ UNCHANGED <<callVars, toolVars, duneVars, uiVars>>

\* one round of the loop: the model names tool id t, the step is recorded
ConcStep(r, t) ==
  /\ runs[r].pc = "loop"
  /\ Len(runs[r].trace) < MaxConcSteps
  /\ ShouldContinue(Len(runs[r].trace), FALSE)
  /\ LET ts == runs[r].executor.tools
         step == IF t \in NameSet(ts)
                 THEN [tool |-> t, obs |-> Observation(<<"12 Gwei">>)]
                 ELSE [tool |-> t, obs |-> InvalidToolText(t, ts)]
     IN runs' = AppendOwn(runs, r, step)
  /\ UNCHANGED <<tools, agent_executor, adding>>
  /\ UNCHANGED <<callVars, toolVars, duneVars, uiVars>>

\* the model gives its Final Answer: lines 100-115
ConcFinish(r) ==
  /\ runs[r].pc = "loop"
  /\ runs' = [runs EXCEPT
       ![r].pc = "returned",
       ![r].result = <<ResearchSuccess(ConcOutput, runs[r].trace,
                                       runs[r].available_tools, hashSeed)>>]
  /\ UNCHANGED <<tools, agent_executor, adding>>
  /\ UNCHANGED <<callVars, toolVars, duneVars, uiVars>>

\* invoke raises: lines 117-136, which read self.tools as it is then
ConcRaise(r, msg) ==
  /\ runs[r].pc = "loop"
  /\ runs' = [runs EXCEPT
       ![r].pc = "returned",
       ![r].result = <<ResearchExcept(msg, tools)>>]
  /\ UNCHANGED <<tools, agent_executor, adding>>
  /\ UNCHANGED <<callVars, toolVars, duneVars, uiVars>>

\* add_tool, line 33: self.tools.append(tool), for a tool that
\* initialize_agent has not registered yet
ConcAddAppend(t) ==
  /\ ~adding
  /\ t \notin NameSet(tools)
  /\ tools' = Append(tools, t)
  /\ adding' = TRUE
  /\ UNCHANGED <<agent_executor, runs>>
  /\ UNCHANGED <<callVars, toolVars, duneVars, uiVars>>

\* add_tool, line 34: self._rebuild_agent()
ConcAddRebuild ==
  /\ adding
  /\ agent_executor' = RebuildAgent(tools, agent_executor)
  /\ adding' = FALSE
  /\ UNCHANGED <<tools, runs>>
  /\ UNCHANGED <<callVars, toolVars, duneVars, uiVars>>

NextConc ==
  \/ \E r \in RunIds : ConcCheck(r)
  \/ \E r \in RunIds : ConcNames(r)
  \/ \E r \in RunIds : ConcInvoke(r)
  \/ \E r \in RunIds :
       \E t \in NameSet(runs[r].executor.tools) \cup {UnknownTool} : ConcStep(r, t)
  \/ \E r \in RunIds : ConcFinish(r)
  \/ \E r \in RunIds : \E msg \in ErrMsgs : ConcRaise(r, msg)
  \/ ConcAddAppend(DuneTool)
  \/ ConcAddRebuild

SpecConc == InitConc /\ [][NextConc]_vars

\* ------------------------------------- DuneAnalyticsMCP.execute_query
\* Time is time.time() - start_time in seconds.  A request takes no time
\* worth counting, or as long as one sleep, or its whole timeout.
DuneMaxWait == 60
DunePollSleep == 5
DuneRequestTimeout == 30

DuneDurations == {0, DunePollSleep, DuneRequestTimeout}

\* what the HTTP request meets: a RequestException, a body with an "error"
\* key, or a body without one
DuneStartReplies == {"request_error", "error_body", "no_execution_id", "started"}

DunePollReplies ==
  {"request_error", "error_body", "no_state", "QUERY_STATE_EXECUTING",
   "QUERY_STATE_COMPLETED", "QUERY_STATE_FAILED"}

DuneErrorDict(text) ==
  [has_error |-> TRUE, text |-> text, execution_id |-> FALSE, state |-> "none"]

\* _make_request
DuneMakeRequest(key, reply) ==
  IF ~key THEN DuneErrorDict(<<"Dune Analytics API key not configured">>)
  ELSE IF reply = "request_error"
  THEN DuneErrorDict(<<"API request failed: ", "timeout">>)
  ELSE IF reply = "error_body" THEN DuneErrorDict(<<"upstream error body">>)
  ELSE [has_error |-> FALSE, text |-> <<>>,
        execution_id |-> (reply = "started"),
        state |-> IF reply \in {"no_execution_id", "started", "no_state"}
                  THEN "none" ELSE reply]

DuneReturn(dict) ==
  [returned |-> TRUE, has_error |-> dict.has_error, text |-> dict.text]

\* `while time.time() - start_time < max_wait`
KeepPollingInclusive(elapsed, max_wait) == elapsed <= max_wait

KeepPolling(elapsed, max_wait) == elapsed < max_wait

InitDune ==
  /\ tools = <<>>
  /\ agent_executor = NoExecutor
  /\ CallIdle
  /\ ToolIdle
  /\ ConcIdle
  /\ UiIdle
  /\ dunePc = "start"
  /\ duneKey \in BOOLEAN
  /\ duneElapsed = 0
  /\ dunePolls = 0
  /\ duneSeen = <<>>
  /\ duneResult = NoDuneResult

\* lines 49-57: the POST that starts the execution
DuneStart(reply) ==
  /\ dunePc = "start"
  /\ LET exec_response == DuneMakeRequest(duneKey, reply)
     IN IF exec_response.has_error
        THEN /\ duneResult' = DuneReturn(exec_response)
             /\ dunePc' = "done"
        ELSE IF ~exec_response.execution_id
        THEN /\ duneResult' = DuneReturn(DuneErrorDict(<<"No execution ID returned">>))
             /\ dunePc' = "done"
        ELSE /\ duneResult' = duneResult
             /\ dunePc' = "loop"
  /\ duneElapsed' = 0
  /\ UNCHANGED <<duneKey, dunePolls, duneSeen>>
  /\ UNCHANGED <<tools, agent_executor, callVars, toolVars, concVars, uiVars>>

\* lines 60-69: the loop condition holds, one GET and what follows from it
DunePoll(reply, took) ==
  /\ dunePc = "loop"
  /\ KeepPolling(duneElapsed, DuneMaxWait)
  /\ dunePolls' = dunePolls + 1
  /\ duneElapsed' = duneElapsed + took
  /\ LET result == DuneMakeRequest(duneKey, reply)
     IN /\ duneSeen' = <<result.state>>
        /\ IF result.has_error
           THEN /\ duneResult' = DuneReturn(result)
                /\ dunePc' = "done"
           ELSE IF result.state = "QUERY_STATE_COMPLETED"
           THEN /\ duneResult' = DuneReturn(result)
                /\ dunePc' = "done"
           ELSE IF result.state = "QUERY_STATE_FAILED"
           THEN /\ duneResult' = DuneReturn(DuneErrorDict(<<"Query execution failed">>))
                /\ dunePc' = "done"
           ELSE /\ duneResult' = duneResult
                /\ dunePc' = "sleep"
  /\ UNCHANGED duneKey
  /\ UNCHANGED <<tools, agent_executor, callVars, toolVars, concVars, uiVars>>

\* line 71: time.sleep(5)
DuneSleep ==
  /\ dunePc = "sleep"
  /\ duneElapsed' = duneElapsed + DunePollSleep
  /\ dunePc' = "loop"
  /\ UNCHANGED <<duneKey, dunePolls, duneSeen, duneResult>>
  /\ UNCHANGED <<tools, agent_executor, callVars, toolVars, concVars, uiVars>>

\* line 73: the loop condition fails
DuneTimeout ==
  /\ dunePc = "loop"
  /\ ~KeepPolling(duneElapsed, DuneMaxWait)
  /\ duneResult' = DuneReturn(DuneErrorDict(<<"Query execution timed out">>))
  /\ dunePc' = "done"
  /\ UNCHANGED <<duneKey, duneElapsed, dunePolls, duneSeen>>
  /\ UNCHANGED <<tools, agent_executor, callVars, toolVars, concVars, uiVars>>

NextDune ==
  \/ \E reply \in DuneStartReplies : DuneStart(reply)
  \/ \E reply \in DunePollReplies : \E took \in DuneDurations : DunePoll(reply, took)
  \/ DuneSleep
  \/ DuneTimeout

SpecDune == InitDune /\ [][NextDune]_vars

\* ------------------------------------------ main: the chat message list
\* One script run handles one widget event.  The script reaches the widgets
\* only with st.session_state.agent set: a failed initialize_agent stops it.
MaxMessages == 4

UserMessage(q) == [role |-> "user", content |-> q]

\* lines 289-315: the assistant message of a research call that succeeded,
\* reported a failure, or raised
AssistantMessage(outcome) ==
  [role |-> "assistant",
   content |-> IF outcome = "success" THEN "answer"
               ELSE IF outcome = "failure" THEN "error_msg"
               ELSE "Unexpected error"]

ResearchOutcomes == {"success", "failure", "exception"}

InitUI ==
  /\ tools = <<>>
  /\ agent_executor = NoExecutor
  /\ CallIdle
  /\ ToolIdle
  /\ ConcIdle
  /\ DuneIdle
  /\ UiIdle

\* lines 110-119: initialize_agent gives an agent, or the script stops
UiInitialize(ok) ==
  /\ ~uiAgent
  /\ uiAgent' = ok
  /\ UNCHANGED messages
  /\ UNCHANGED <<tools, agent_executor, callVars, toolVars, concVars, duneVars>>

\* lines 244-317: the chat input
UiChatInput(q, outcome) ==
  /\ uiAgent
  /\ Len(messages) + 2 <= MaxMessages
  /\ messages' = IF uiAgent
                 THEN Append(Append(messages, UserMessage(q)),
                             AssistantMessage(outcome))
                 ELSE Append(messages, UserMessage(q))
  /\ UNCHANGED uiAgent
  /\ UNCHANGED <<tools, agent_executor, callVars, toolVars, concVars, duneVars>>

\* lines 194-203: a sample-query button, then st.rerun()
UiSampleQuery(q) ==
  /\ uiAgent
  /\ Len(messages) < MaxMessages
  /\ messages' = Append(messages, UserMessage(q))
  /\ UNCHANGED uiAgent
  /\ UNCHANGED <<tools, agent_executor, callVars, toolVars, concVars, duneVars>>

\* lines 206-208: Clear Chat, then st.rerun()
UiClearChat ==
  /\ uiAgent
  /\ messages' = <<>>
  /\ UNCHANGED uiAgent
  /\ UNCHANGED <<tools, agent_executor, callVars, toolVars, concVars, duneVars>>

NextUI ==
  \/ \E ok \in BOOLEAN : UiInitialize(ok)
  \/ \E q \in Queries : \E outcome \in ResearchOutcomes : UiChatInput(q, outcome)
  \/ \E q \in Queries : UiSampleQuery(q)
  \/ UiClearChat

SpecUI == InitUI /\ [][NextUI]_vars

\* ================================================================== claims
Returned == pc = "returned" /\ Len(results) = 1

ElemSet(s) == {s[i] : i \in 1..Len(s)}

NoDuplicates(s) == \A i, j \in 1..Len(s) : i # j => s[i] # s[j]

\* C1: a research call made while no tool was ever registered returns at
\* once with success=false, an answer beginning "No data sources connected",
\* sources = [] and steps = [], without any model call or tool call.
C1_NoToolsShortCircuit ==
  /\ pc \in {"think", "act"} => regAtStart # <<>>
  /\ (pc = "returned" /\ regAtStart = <<>>) =>
       /\ Len(results) = 1
       /\ results[1].success = FALSE
       /\ results[1].answer # <<>>
       /\ results[1].answer[1] = "No data sources connected"
       /\ results[1].sources = <<>>
       /\ results[1].steps = <<>>
       /\ llmCalls = 0
       /\ toolCalls = 0
       /\ trace = <<>>

C1_Witness == pc = "returned" /\ regAtStart = <<>> /\ query = "q2"

\* C2: every research call ends with exactly one returned dictionary and one
\* terminal status, and no exception leaves research, whether the model call
\* or a tool call returns, raises or times out.
C2_OneResultNoEscape ==
  /\ escaped = FALSE
  /\ pc = "returned" =>
       /\ Len(results) = 1
       /\ status \in {"Completed", "Exhausted", "Failed"}
  /\ pc \in {"think", "act"} => results = <<>> /\ status = "Running"

C2_Witness ==
  /\ Returned
  /\ failure = "ToolRaised"
  /\ results[1].error = <<"429 rate limit exceeded">>
  /\ trace # <<>>

\* C3 (as stated): research returns success=true exactly when the run ended
\* Completed; an Exhausted or Failed run returns success=false.
C3_SuccessIffCompleted ==
  Returned => (results[1].success <=> status = "Completed")

\* C4: the number of model round-trips of a run never exceeds max_iterations,
\* and a run whose every round was a tool request (wall-clock budget not
\* reached) ends Exhausted after exactly max_iterations iterations.
C4_IterationBudget ==
  /\ llmCalls <= max_iterations
  /\ iterations <= max_iterations
  /\ (pc = "returned" /\ iterations = max_iterations) => status = "Exhausted"
  /\ (status = "Exhausted" /\ ~timeUp) =>
       /\ iterations = max_iterations
       /\ llmCalls = max_iterations
       /\ Len(trace) = max_iterations

C4_Witness ==
  /\ Returned
  /\ status = "Exhausted"
  /\ ~timeUp
  /\ toolCalls = max_iterations
  /\ llmCalls = max_iterations

\* C5 (as stated): the answer of every returned dictionary is a non-empty
\* string, on success and on every failure path.
C5_AnswerNonEmpty == Returned => results[1].answer # <<>>

\* C6: the answer of a Completed run never contains the label
\* "Final Answer:", however often the label occurs in the output.
C6_NoLabelInAnswer ==
  (Returned /\ status = "Completed") =>
     ~Contains(results[1].answer, FinalAnswerLabel)

C6_Witness ==
  /\ Returned
  /\ status = "Completed"
  /\ output.present
  /\ Cardinality({i \in 1..Len(output.text) : output.text[i] = FinalAnswerLabel}) >= 2

\* C7 (as stated): for a Completed run, steps is non-empty exactly when at
\* least one tool was invoked.
C7_StepsIffToolInvoked ==
  (Returned /\ status = "Completed") =>
     (results[1].steps # <<>> <=> toolCalls >= 1)

\* C7 (amended): for a Completed run, steps holds one entry per loop
\* iteration that ended without a Final Answer (a registered tool invoked, an
\* unknown tool id answered, or an unparsable output answered), so steps is
\* non-empty exactly when there was such an iteration, and is non-empty
\* whenever a tool was invoked.
C7_StepsIffIteration ==
  (Returned /\ status = "Completed") =>
     /\ results[1].steps # <<>> <=> iterations >= 1
     /\ Len(results[1].steps) = iterations
     /\ toolCalls >= 1 => results[1].steps # <<>>

C7_Witness ==
  /\ Returned
  /\ status = "Completed"
  /\ toolCalls = 0
  /\ results[1].steps # <<>>

\* C8 (as stated): for every terminated run, steps holds every pair of the
\* run's trace in invocation order, also when the run ends Failed or
\* Exhausted after tools were invoked.
C8_StepsAreTrace == Returned => results[1].steps = trace

\* C9: sources holds each normalized name at most once and exactly the
\* normalized names of the tool ids in the trace; invocations
\* [toolA, toolA, toolB] give the two names of toolA and toolB.
C9_SourcesDeduplicated ==
  pc = "extracted" =>
     LET src == results[1].sources
         ids == [i \in 1..Len(trace) |-> trace[i].tool]
     IN /\ NoDuplicates(src)
        /\ ElemSet(src) = {Normalize(ids[i]) : i \in 1..Len(ids)}
        /\ Len(src) <= Cardinality(ElemSet(ids))
        /\ ids = <<GasTool, GasTool, DuneTool>> =>
             /\ Len(src) = 2
             /\ ElemSet(src) = {GasTool, <<"Dune Analytics">>}

C9_Witness ==
  /\ pc = "extracted"
  /\ [i \in 1..Len(trace) |-> trace[i].tool] = <<GasTool, GasTool, DuneTool>>
  /\ Len(results[1].sources) = 2

\* the table of the normalization, in the order the code tests it
Keywords ==
  <<"defillama", "etherscan", "coinmarketcap", "artemis", "dune", "nansen">>

DisplayNames ==
  << <<"DeFiLlama">>, <<"Etherscan">>, <<"CoinMarketCap">>, <<"Artemis">>,
     <<"Dune Analytics">>, <<"Nansen">> >>

Matches(id) == {k \in 1..Len(Keywords) : ContainsLower(id, Keywords[k])}

FirstMatchName(id) ==
  IF Matches(id) = {} THEN id
  ELSE DisplayNames[CHOOSE k \in Matches(id) : \A m \in Matches(id) : k <= m]

\* C10 (as stated): every tool id containing one of the six keywords maps to
\* that keyword's display name, an id matching none passes through as its
\* raw id, and each trace step contributes exactly one source name.
C10_EveryKeywordMaps ==
  pc = "extracted" =>
     \A i \in 1..Len(trace) :
        /\ \A k \in Matches(trace[i].tool) :
              DisplayNames[k] \in ElemSet(results[1].sources)
        /\ Matches(trace[i].tool) = {} =>
              trace[i].tool \in ElemSet(results[1].sources)

\* C10 (amended): a tool id maps to the display name of the first keyword,
\* in the order defillama, etherscan, coinmarketcap, artemis, dune, nansen,
\* that its lower-cased id contains; an id containing none passes through
\* unchanged; each trace step contributes exactly one source name.
C10_FirstKeywordMaps ==
  pc = "extracted" =>
     LET src == results[1].sources
     IN /\ ElemSet(src) = {FirstMatchName(trace[i].tool) : i \in 1..Len(trace)}
        /\ Len(src) <= Len(trace)
        /\ Len(trace) = 1 => src = <<FirstMatchName(trace[1].tool)>>

C10_Witness ==
  /\ pc = "extracted"
  /\ Len(trace) = 3
  /\ trace[1].tool = EtherDuneTool
  /\ trace[2].tool = <<"DUNE", "_and_", "Nansen">>
  /\ trace[3].tool = GasTool
  /\ ElemSet(results[1].sources) = {<<"Etherscan">>, <<"Dune Analytics">>, GasTool}

ContainsSub(text, sub) ==
  \E k \in 0..(Len(text) - Len(sub)) : SubSeq(text, k + 1, k + Len(sub)) = sub

\* C12: when the model names a tool id that is not registered, the run does
\* not fail: the step is recorded with a corrective observation that lists
\* the valid ids, the loop goes on, and the run can still end Completed with
\* success=true.
C12_UnknownToolRecovers ==
  [][ (pc = "act" /\ pending \notin NameSet(agent_executor.tools)) =>
        /\ pc' = "think"
        /\ status' = "Running"
        /\ results' = <<>>
        /\ escaped' = FALSE
        /\ Len(trace') = Len(trace) + 1
        /\ trace'[Len(trace')].tool = pending
        /\ \A i \in 1..Len(agent_executor.tools) :
              ContainsSub(trace'[Len(trace')].obs, agent_executor.tools[i]) ]_vars

C12_Witness ==
  /\ Returned
  /\ status = "Completed"
  /\ results[1].success
  /\ Len(trace) = 1
  /\ trace[1].tool = UnknownTool
  /\ ContainsSub(trace[1].obs, DuneTool)

\* C13: an exception from the call to the language model ends the run at
\* once as Failed: success=false, error is the exception's message, and no
\* model or tool call follows in that run.
C13_ModelFailureFatal ==
  failure = "ModelCallFailure" =>
     /\ pc = "returned"
     /\ status = "Failed"
     /\ Len(results) = 1
     /\ results[1].success = FALSE
     /\ results[1].has_error
     /\ excMsg \in ErrMsgs
     /\ results[1].error = excMsg
     /\ llmCalls = iterations + 1
     /\ toolCalls <= iterations
     /\ pending = NoPending

C13_Witness ==
  /\ Returned
  /\ failure = "ModelCallFailure"
  /\ toolCalls >= 1
  /\ results[1].error = <<"429 rate limit exceeded">>

\* C14 (as stated): only a failure of the model call ends a run as Failed; an
\* unknown tool id, an unparsable output or a failing tool invocation never
\* does (a call without tools never starts a run).
C14_OnlyModelFailureFatal ==
  (pc = "returned" /\ status = "Failed") =>
     failure \in {"ModelCallFailure", "NoToolsConfigured"}

\* C15 (as stated): a registered tool's function returns text for every
\* argument string and never raises; internal failures come back as text.
C15_ToolNeverRaises == pc = "tool_done" => ~toolOut.raised

\* C16 (as stated): a returned dictionary has an error field exactly when
\* success is false.
C16_ErrorIffFailure ==
  Returned => (results[1].has_error <=> ~results[1].success)

\* C17: after any sequence of add_tool calls the registry holds the added
\* tools in registration order, the executor is built over the whole current
\* registry, and the executor is absent exactly when the registry is empty.
C17_RegistryAndExecutor ==
  /\ [](/\ agent_executor.built <=> tools # <<>>
        /\ agent_executor.built => agent_executor.tools = tools)
  /\ [][ tools' # tools =>
           /\ Len(tools') = Len(tools) + 1
           /\ SubSeq(tools', 1, Len(tools)) = tools
           /\ agent_executor'.built
           /\ agent_executor'.tools = tools' ]_vars

C17_Witness ==
  /\ pc = "act"
  /\ Len(tools) = 2
  /\ tools[1] # tools[2]
  /\ pending = tools[2]
  /\ agent_executor.tools = tools

\* C18 (as stated): the registry never holds two tools with the same id.
C18_UniqueToolIds == NoDuplicates(tools)

\* C19 (as stated): once the wall-clock deadline has passed, the run ends
\* after at most the call that was in flight: no further model call or tool
\* call starts.
C19_NoCallAfterDeadline ==
  [][ (clockPast /\ pc \in {"think", "act"}) =>
        (llmCalls' = llmCalls /\ toolCalls' = toolCalls) ]_vars

\* C20 (as stated): on an exhausted budget the answer is built from the
\* accumulated observations when the trace holds one, and the run fails
\* (success=false) when it holds none.
C20_BestEffortFromObservations ==
  (Returned /\ status = "Exhausted") =>
     IF trace # <<>>
     THEN /\ results[1].success
          /\ \E i \in 1..Len(trace) : ContainsSub(results[1].answer, trace[i].obs)
     ELSE ~results[1].success

\* C21: an unparsable model output is fed back as a corrective observation
\* and the loop goes on; a run whose every iteration is unparsable makes
\* max_iterations model calls and ends as Exhausted; a model round ends a
\* run as Failed only when the call itself raised.
C21_MalformedEndsExhausted ==
  /\ []( (/\ Len(trace) = max_iterations
          /\ \A i \in 1..Len(trace) : trace[i].tool = ExceptionToolName) =>
            /\ \A i \in 1..Len(trace) : trace[i].obs = ParseErrorText
            /\ llmCalls = max_iterations
            /\ \/ pc = "think" /\ status = "Running"
               \/ pc = "returned" /\ status = "Exhausted" )
  /\ [][ (pc = "think" /\ status' = "Failed") =>
            failure' = "ModelCallFailure" ]_vars

C21_Witness ==
  /\ Returned
  /\ status = "Exhausted"
  /\ ~timeUp
  /\ Len(trace) = max_iterations
  /\ \A i \in 1..Len(trace) : trace[i].tool = ExceptionToolName
  /\ results[1].success

\* C22: the text a tool returns becomes the observation as it is, also when
\* it reports the tool's own error; the step that records it leaves the run
\* Running, with nothing returned yet.
GasErrorText == <<"Error fetching gas data: ", "timeout">>

C22_ErrorTextPassedThrough ==
  /\ [](\A i \in 1..Len(trace) :
          trace[i].tool \in RegIds => trace[i].obs \in ToolTexts)
  /\ [][ (pc = "act" /\ pc' = "think") =>
            /\ status' = "Running"
            /\ results' = <<>>
            /\ failure' = "None" ]_vars

C22_Witness ==
  /\ Returned
  /\ status = "Completed"
  /\ results[1].success
  /\ Len(trace) = 2
  /\ trace[1] = [tool |-> GasTool, obs |-> GasErrorText]
  /\ trace[2].obs = <<"12 Gwei">>
  /\ results[1].steps = trace

\* C23: inside a run every change of the trace appends one step to it and
\* counts one iteration, every iteration that goes back to the model appends
\* one, and after the run has returned the trace changes only when the next
\* call begins with an empty one.
C23_TraceAppendOnly ==
  [][ /\ (pc \in {"think", "act"} /\ trace' # trace) =>
            /\ Len(trace') = Len(trace) + 1
            /\ SubSeq(trace', 1, Len(trace)) = trace
            /\ iterations' = iterations + 1
      /\ (pc \in {"think", "act"} /\ pc' = "think") =>
            Len(trace') = Len(trace) + 1
      /\ (pc \in {"think", "act"} /\ pc' \in {"act", "returned"}) =>
            trace' = trace
      /\ (pc = "returned" /\ trace' # trace) =>
            (trace' = <<>> /\ llmCalls' = 0) ]_vars

C23_Witness ==
  /\ Returned
  /\ Len(trace) = 3
  /\ trace[1].tool = GasTool
  /\ trace[2].tool = ExceptionToolName
  /\ trace[3].tool = UnknownTool

\* C24: the steps of a run follow one another: the model is asked for step
\* k+1 only when k steps are recorded, at most one action is pending, and a
\* tool's function is called once per step, by the step that records it.
C24_StrictlySequential ==
  /\ [](pc = "think" =>
          (pending = NoPending /\ llmCalls = Len(trace) /\ toolCalls <= Len(trace)))
  /\ [](pc = "act" =>
          (pending # NoPending /\ llmCalls = Len(trace) + 1
             /\ toolCalls <= Len(trace)))
  /\ [][ (pc \in {"think", "act"} /\ toolCalls' # toolCalls) =>
            /\ pc = "act"
            /\ toolCalls' = toolCalls + 1
            /\ pending' = NoPending
            /\ pc' \in {"think", "returned"} ]_vars

C24_Witness ==
  /\ pc = "act"
  /\ Len(trace) = 2
  /\ toolCalls = 2
  /\ llmCalls = 3
  /\ pending = GasTool

\* C25: research calls running side by side on one agent do not interfere:
\* a step of a call leaves the registry, the executor and every other call's
\* locals as they were, and a call's steps, sources and answer are those of
\* its own trace.
C25_RunsDoNotInterfere ==
  /\ [][ \A r \in RunIds :
           runs'[r] # runs[r] =>
             /\ tools' = tools
             /\ agent_executor' = agent_executor
             /\ \A x \in RunIds \ {r} : runs'[x] = runs[x] ]_vars
  /\ [](\A r \in RunIds :
          (runs[r].pc = "returned" /\ runs[r].result[1].success) =>
             /\ runs[r].result[1].steps = runs[r].trace
             /\ ElemSet(runs[r].result[1].sources)
                  = {Normalize(runs[r].trace[i].tool) : i \in 1..Len(runs[r].trace)}
             /\ runs[r].result[1].answer = <<"12 Gwei">>)

C25_Witness ==
  /\ runs[1].pc = "returned"
  /\ runs[1].result[1].success
  /\ Len(runs[1].trace) = 1
  /\ runs[1].trace[1].tool = GasTool
  /\ runs[1].result[1].steps = runs[1].trace
  /\ runs[2].pc = "loop"
  /\ Len(runs[2].trace) = 1
  /\ runs[2].trace[1].tool = UnknownTool

\* C26 (as stated): a call uses the registry as it was when the call began:
\* the executor it dispatches through is the one of that moment, and the tool
\* names in its result (available_tools, or the list inside the "Tool
\* execution failed" answer) are the names of that moment.
C26_SnapshotOnStart ==
  \A r \in RunIds :
    /\ runs[r].pc \in {"loop", "returned"} /\ runs[r].executor.built =>
         NameSet(runs[r].executor.tools) = NameSet(runs[r].startExecutor.tools)
    /\ runs[r].pc = "returned" =>
         LET res == runs[r].result[1]
         IN /\ res.has_available_tools =>
                 res.available_tools = ToolNameList(runs[r].startTools)
            /\ (res.answer # <<>> /\ res.answer[1] = "Tool execution failed. Available tools: ") =>
                 res.answer = <<"Tool execution failed. Available tools: ">>
                                \o Join(ToolNameList(runs[r].startTools))

\* C27: the answer of a call whose executor returned: with the label in the
\* output, what follows its last occurrence without the whitespace around
\* it; without the label, the output as it is, whitespace included; without
\* an output, "No response generated".
C27_AnswerCleaning ==
  (Returned /\ status \in {"Completed", "Exhausted"}) =>
     LET text == output.text
         a == results[1].answer
         labels == {k \in 1..Len(text) : text[k] = FinalAnswerLabel}
     IN IF ~output.present THEN a = <<"No response generated">>
        ELSE IF labels = {} THEN a = text
        ELSE LET k == CHOOSE m \in labels : \A n \in labels : n <= m
             IN /\ \E i \in (k+1)..(Len(text)+1) : \E j \in (i-1)..Len(text) :
                     /\ a = SubSeq(text, i, j)
                     /\ \A m \in (k+1)..(i-1) : text[m] = Space
                     /\ \A m \in (j+1)..Len(text) : text[m] = Space
                /\ a # <<>> => (a[1] # Space /\ a[Len(a)] # Space)

C27_Witness ==
  /\ Returned
  /\ status = "Completed"
  /\ output = [present |-> TRUE, text |-> <<Space, "12 Gwei">>]
  /\ results[1].answer = <<Space, "12 Gwei">>

\* C28: when the executor raised, the answer is "Tool execution failed.
\* Available tools: <names>" if the message holds "not found" in any case and
\* "Research failed: <message>" otherwise; success is false, error is the
\* message, sources and steps are empty whatever the run had done.
C28_ExceptClassification ==
  (Returned /\ failure \in {"ModelCallFailure", "ToolRaised"}) =>
     LET res == results[1]
         notFound == \E i \in 1..Len(excMsg) :
                       excMsg[i] \in {"not found", "Not Found", "NOT FOUND"}
     IN /\ res.answer = IF notFound
                        THEN <<"Tool execution failed. Available tools: ">>
                               \o Join(regAtStart)
                        ELSE <<"Research failed: ">> \o excMsg
        /\ res.success = FALSE
        /\ res.has_error /\ res.error = excMsg
        /\ res.sources = <<>> /\ res.steps = <<>>

C28_Witness ==
  /\ Returned
  /\ failure = "ToolRaised"
  /\ excMsg = <<"404 model ", "Not Found">>
  /\ toolCalls = 2
  /\ Len(trace) = 1
  /\ Len(regAtStart) = 2
  /\ results[1].steps = <<>>
  /\ results[1].answer[1] = "Tool execution failed. Available tools: "

\* C29: execute_query returns a dictionary without "error" only after a poll
\* that reported QUERY_STATE_COMPLETED, every other way out returns one with
\* "error", and a poll is issued only while the elapsed time is below
\* max_wait.
C29_DuneCompletedOrError ==
  /\ [](dunePc = "done" =>
          /\ duneResult.returned
          /\ ~duneResult.has_error =>
               (dunePolls >= 1 /\ duneSeen = <<"QUERY_STATE_COMPLETED">>)
          /\ duneSeen # <<"QUERY_STATE_COMPLETED">> =>
               (duneResult.has_error /\ duneResult.text # <<>>))
  /\ [][ dunePolls' # dunePolls =>
           (dunePolls' = dunePolls + 1 /\ duneElapsed < DuneMaxWait) ]_vars

C29_Witness ==
  /\ dunePc = "done"
  /\ ~duneResult.has_error
  /\ dunePolls = 3
  /\ duneElapsed = 2 * DunePollSleep + DuneRequestTimeout

\* C30 (as stated): once an event is handled, every user message is followed
\* at once by one assistant message.
C30_EveryUserMessageAnswered ==
  \A i \in 1..Len(messages) :
    messages[i].role = "user" =>
      /\ i < Len(messages)
      /\ messages[i + 1].role = "assistant"
      /\ (i + 2 <= Len(messages) => messages[i + 2].role = "user")
====
